---- MODULE Spec2Model ----
(***************************************************************************)
(* The feedback-processing pipeline of data_ingestion/tasks.py: the        *)
(* RawFeed rows and their status, the ProcessedFeedback rows, the Celery   *)
(* messages of process_feedback with their retry counters, the periodic    *)
(* and on-demand sweeps, the reprocess request of the API and the purge,   *)
(* and the requests of the API that create and delete BusinessEntity and   *)
(* RawFeed rows (data_ingestion/views.py).                                 *)
(*                                                                         *)
(* Every database statement of the code commits on its own (the tasks run  *)
(* in autocommit mode; only the final write of process_feedback is inside  *)
(* transaction.atomic()), so one action of the model is one committed      *)
(* statement, or one handler whose statements nothing can observe apart.   *)
(***************************************************************************)
EXTENDS Integers, FiniteSets, Sequences, Bags, TLC

\* ------------------------------------------------------------------ bounds
MaxItems == 2          \* RawFeed rows ever ingested
MaxTasks == 2          \* process_feedback messages ever published by delay()
MaxTicks == 1          \* times the clock moves
MaxEntities == 1       \* BusinessEntity rows ever created

\* ------------------------------------------------------- program constants
max_retries == 3                       \* @shared_task(bind=True, max_retries=3)
BackoffBase == 60                      \* 60 * (2 ** self.request.retries)
BatchLimit == 100                      \* pending[:100]
RetentionDays == 90                    \* timedelta(days=90)
SecondsPerDay == 86400
RetentionSecs == RetentionDays * SecondsPerDay

NULL == "NULL"           \* a null text column
NoTime == <<>>           \* a null DateTimeField; <<t>> is the time t
NoEmb == "none"          \* embeddings not computed (yet)

Ids == 1..MaxItems
EntityIds == 1..MaxEntities

\* request.user: two users and an administrator
Users == {"ann", "bob", "root"}

\* the requests of Spec and LiveSpec come from one user, who owns every entity:
\* who sends an accepted request does not change what it does
SpecUsers == {"ann"}
Embeds == {"e1", "e2"}   \* values of [random.random() for _ in range(10)]
TickSecs == RetentionSecs + 1
MaxNow == MaxTicks * TickSecs

\* str(e) of the exceptions an attempt can meet
ErrLoad == "the database refused the select"
ErrAnnotate == "annotator failed"
ErrSave == "Save with update_fields did not affect any rows."
ErrIntegrity == "FOREIGN KEY constraint failed"
ErrWrite == "database is locked"

\* --------------------------------------------------------------- the state
VARIABLES
    feeds,        \* RawFeed table: id -> [status, error_message, processed_at]
    nextFeed,     \* next RawFeed id (auto-increment)
    annotations,  \* ProcessedFeedback table: set of [id, raw_feed, embeddings]
    nextAnn,      \* next ProcessedFeedback id (auto-increment)
    tasks,        \* bag of process_feedback messages: queued, running, finished
    published,    \* number of process_feedback.delay() calls so far
    failedSel,    \* rows a running reprocess_failed_feedbacks has still to reset
    now,          \* timezone.now(), in seconds
    entities,     \* BusinessEntity table: id -> [is_active]
    nextEntity,   \* next BusinessEntity id (auto-increment)
    uploading,    \* entities of the bulk uploads between validation and response:
                  \* their FeedbackBatch rows with status processing
    response,     \* HTTP status of the last request answered by a view of SpecApi
    text,         \* RawFeed.text of the items SpecAnnotate analyses, as characters
    runs,         \* what the analysis of process_feedback computed for that text,
                  \* one record for each execution
    results       \* what the calls of process_bulk_feedbacks returned, in order

\* the tables and requests of the entity API, which no task writes
ents == <<entities, nextEntity, uploading, response>>

\* the input and the outputs of the analysis on its own, and the values that
\* process_bulk_feedbacks returned
pure == <<text, runs, results>>

vars == <<feeds, nextFeed, annotations, nextAnn, tasks, published, failedSel, now,
          ents, pure>>

Exists(f) == f \in DOMAIN feeds

Msgs == BagToSet(tasks)

\* an attempt of the message is between its load and its end
InFlight(r) == r.pc \in {"loaded", "processing"}

\* the message will be executed (again) without anybody's help
Live(r) == r.pc \in {"queued", "loaded", "processing"}

AnnotationsOf(f) == {a \in annotations : a.raw_feed = f}

WithStatus(s) == {f \in DOMAIN feeds : feeds[f].status = s}

\* ------------------------------------------------------------------- Init
Init ==
    /\ feeds = <<>>
    /\ nextFeed = 1
    /\ annotations = {}
    /\ nextAnn = 1
    /\ tasks = EmptyBag
    /\ published = 0
    /\ failedSel = {}
    /\ now = 0
    /\ entities = <<>>
    /\ nextEntity = 1
    /\ uploading = {}
    /\ response = "none"
    /\ text = <<>>
    /\ runs = <<>>
    /\ results = <<>>

\* ------------------------------------------------------------ entity API
\* POST /entities/: BusinessEntitySerializer, is_active writable (default
\* True); perform_create saves owner=request.user
CreateEntity(u) ==
    /\ nextEntity <= MaxEntities
    /\ \E b \in BOOLEAN :
          entities' = [e \in DOMAIN entities \cup {nextEntity} |->
                          IF e = nextEntity THEN [is_active |-> b, owner |-> u]
                          ELSE entities[e]]
    /\ nextEntity' = nextEntity + 1
    /\ UNCHANGED <<feeds, nextFeed, annotations, nextAnn, tasks, published, failedSel,
                   now, uploading, response, pure>>

\* PUT or PATCH /entities/{id}/ writing is_active
UpdateEntity(e, b) ==
    /\ e \in DOMAIN entities
    /\ entities[e].is_active # b
    /\ entities' = [entities EXCEPT ![e].is_active = b]
    /\ UNCHANGED <<feeds, nextFeed, annotations, nextAnn, tasks, published, failedSel,
                   now, nextEntity, uploading, response, pure>>

FeedsOf(e) == {f \in DOMAIN feeds : feeds[f].entity = e}

\* DELETE /entities/{id}/: RawFeed.entity is on_delete=CASCADE, and so is
\* ProcessedFeedback.raw_feed
DestroyEntity(e) ==
    /\ e \in DOMAIN entities
    /\ entities' = [d \in DOMAIN entities \ {e} |-> entities[d]]
    /\ feeds' = [f \in DOMAIN feeds \ FeedsOf(e) |-> feeds[f]]
    /\ annotations' = {a \in annotations : a.raw_feed \notin FeedsOf(e)}
    /\ UNCHANGED <<nextFeed, nextAnn, tasks, published, failedSel, now, nextEntity,
                   uploading, response, pure>>

\* -------------------------------------------------------------- ingestion
\* RawFeed.objects.create(..., status='new') and serializer.save(): no task
\* is published by either ingestion path.
NewFeed(e) == [status |-> "new", error_message |-> NULL, processed_at |-> NoTime,
               entity |-> e]

Insert(e) ==
    [f \in DOMAIN feeds \cup {nextFeed} |->
        IF f = nextFeed THEN NewFeed(e) ELSE feeds[f]]

\* POST /feedbacks/: RawFeedCreateSerializer validates the text only; its
\* entity field (a PrimaryKeyRelatedField) requires that the entity exists
Ingest(e) ==
    /\ nextFeed <= MaxItems
    /\ e \in DOMAIN entities
    /\ feeds' = Insert(e)
    /\ nextFeed' = nextFeed + 1
    /\ UNCHANGED <<annotations, nextAnn, tasks, published, failedSel, now, ents, pure>>

\* FileUploadSerializer.validate_entity_id: the entity exists and is active
ValidateEntityId(e) == e \in DOMAIN entities /\ entities[e].is_active

\* POST /bulk-upload/ up to the end of validation; the rows follow one by one
UploadStart(e) ==
    /\ e \notin uploading
    /\ ValidateEntityId(e)
    /\ uploading' = uploading \cup {e}
    /\ UNCHANGED <<feeds, nextFeed, annotations, nextAnn, tasks, published, failedSel,
                   now, entities, nextEntity, response, pure>>

\* one turn of the loop of _create_feedbacks_from_rows: RawFeed.objects.create
\* with the entity object read before the loop; a row whose create raises (the
\* entity was deleted meanwhile) is skipped
UploadRow(e) ==
    /\ e \in uploading
    /\ nextFeed <= MaxItems
    /\ e \in DOMAIN entities
    /\ feeds' = Insert(e)
    /\ nextFeed' = nextFeed + 1
    /\ UNCHANGED <<annotations, nextAnn, tasks, published, failedSel, now, ents, pure>>

\* the rows are exhausted and the response is sent
UploadEnd(e) ==
    /\ e \in uploading
    /\ uploading' = uploading \ {e}
    /\ UNCHANGED <<feeds, nextFeed, annotations, nextAnn, tasks, published, failedSel,
                   now, entities, nextEntity, response, pure>>

\* process_feedback.delay(feedback_id): one message, retries = 0
NewTask(f) == [fid |-> f, retries |-> 0, execs |-> 0, pc |-> "queued",
               countdown |-> 0, emb |-> NoEmb]

Publish(q, fs) == q (+) SetToBag({NewTask(f) : f \in fs})

Submit(f) ==
    /\ published < MaxTasks
    /\ tasks' = Publish(tasks, {f})
    /\ published' = published + 1
    /\ UNCHANGED <<feeds, nextFeed, annotations, nextAnn, failedSel, now, ents, pure>>

\* ------------------------------------------------------- process_feedback
Replace(r, r2) == (tasks (-) SetToBag({r})) (+) SetToBag({r2})

\* a delay that grows by the base each time (C12 must fail under it)
RetryDelay_linear(retries) == BackoffBase * (retries + 1)

\* retry_delay = 60 * (2 ** self.request.retries)
RetryDelay(retries) == BackoffBase * 2^retries

\* a retry bound that is off by one (C3 must fail under it)
Retry_offByOne(r) ==
    IF r.retries + 1 >= max_retries
    THEN [r EXCEPT !.pc = "dead", !.emb = NoEmb,
                   !.countdown = RetryDelay(r.retries)]
    ELSE [r EXCEPT !.pc = "queued", !.emb = NoEmb, !.retries = @ + 1,
                   !.countdown = RetryDelay(r.retries)]

\* self.retry(exc=e, countdown=retry_delay): Celery publishes the message again
\* with retries + 1 unless that exceeds max_retries, and then re-raises exc.
Retry(r) ==
    IF r.retries + 1 > max_retries
    THEN [r EXCEPT !.pc = "dead", !.emb = NoEmb,
                   !.countdown = RetryDelay(r.retries)]
    ELSE [r EXCEPT !.pc = "queued", !.emb = NoEmb, !.retries = @ + 1,
                   !.countdown = RetryDelay(r.retries)]

\* a failure write that forgets the message (C6 must fail under it)
MarkFailed_statusOnly(f, msg) ==
    IF Exists(f)
    THEN [feeds EXCEPT ![f] = [@ EXCEPT !.status = "failed"]]
    ELSE feeds

\* the except Exception branch: a fresh get of the row, status and
\* error_message written in one UPDATE (skipped when the row is gone)
MarkFailed(f, msg) ==
    IF Exists(f)
    THEN [feeds EXCEPT ![f] = [@ EXCEPT !.status = "failed", !.error_message = msg]]
    ELSE feeds

\* ... and then the retry. r is the message, r1 its record when it raised.
HandleException(r, r1, msg) ==
    /\ feeds' = MarkFailed(r.fid, msg)
    /\ tasks' = Replace(r, Retry(r1))
    /\ UNCHANGED <<nextFeed, annotations, nextAnn, published, failedSel, now, ents, pure>>

\* a load that treats the missing row like any other failure (C11 must fail
\* under it)
Load_retryMissing(r) ==
    /\ r.pc = "queued"
    /\ IF Exists(r.fid)
       THEN /\ tasks' = Replace(r, [r EXCEPT !.execs = @ + 1, !.pc = "loaded"])
            /\ UNCHANGED <<feeds, nextFeed, annotations, nextAnn, published, failedSel,
                           now, ents, pure>>
       ELSE HandleException(r, [r EXCEPT !.execs = @ + 1], ErrLoad)

\* RawFeed.objects.select_for_update().get(id=feedback_id), outside any
\* transaction: on a backend without SELECT ... FOR UPDATE the lock is ignored
\* and the row is read without it; a missing row ends the task.
Load(r) ==
    /\ r.pc = "queued"
    /\ tasks' = Replace(r, [r EXCEPT !.execs = @ + 1,
                               !.pc = IF Exists(r.fid) THEN "loaded" ELSE "notfound"])
    /\ UNCHANGED <<feeds, nextFeed, annotations, nextAnn, published, failedSel, now, ents, pure>>

\* the same statement raises something else than DoesNotExist: the database
\* fails (OperationalError), or the backend has SELECT ... FOR UPDATE, where
\* evaluating the queryset in autocommit mode is a TransactionManagementError.
\* The except Exception branch handles it.
LoadRaise(r) ==
    /\ r.pc = "queued"
    /\ HandleException(r, [r EXCEPT !.execs = @ + 1], ErrLoad)

\* raw_feed.status = 'processing'; raw_feed.save(update_fields=['status']);
\* then the analysis, which touches nothing shared: its embeddings are random
MarkProcessing(r) ==
    /\ r.pc = "loaded"
    /\ IF Exists(r.fid)
       THEN /\ feeds' = [feeds EXCEPT ![r.fid].status = "processing"]
            /\ \E e \in Embeds :
                  tasks' = Replace(r, [r EXCEPT !.pc = "processing", !.emb = e])
            /\ UNCHANGED <<nextFeed, annotations, nextAnn, published, failedSel, now, ents, pure>>
       ELSE HandleException(r, r, ErrSave)

\* the analysis raises
AnnotateRaise(r) ==
    /\ r.pc = "processing"
    /\ HandleException(r, r, ErrAnnotate)

\* a plain create in place of update_or_create (C1 must fail under it)
UpdateOrCreate_insert(f, e) ==
    annotations \cup {[id |-> nextAnn + Cardinality(annotations), raw_feed |-> f,
                       embeddings |-> e]}

\* delete and create in place of update_or_create (C8 must fail under it)
UpdateOrCreate_recreate(f, e) ==
    {a \in annotations : a.raw_feed # f}
        \cup {[id |-> nextAnn + Cardinality(annotations), raw_feed |-> f,
               embeddings |-> e]}

\* ProcessedFeedback.objects.update_or_create(raw_feed=raw_feed, defaults=...)
UpdateOrCreate(f, e) ==
    IF AnnotationsOf(f) = {}
    THEN annotations \cup {[id |-> nextAnn, raw_feed |-> f, embeddings |-> e]}
    ELSE {IF a.raw_feed = f THEN [a EXCEPT !.embeddings = e] ELSE a : a \in annotations}

\* a success write that also clears the message (C28 must fail under it)
MarkProcessed_clearsError(f) ==
    [feeds EXCEPT ![f] = [@ EXCEPT !.status = "processed", !.processed_at = <<now>>,
                                   !.error_message = NULL]]

\* raw_feed.status = 'processed'; raw_feed.processed_at = timezone.now();
\* raw_feed.save(update_fields=['status', 'processed_at'])
MarkProcessed(f) ==
    [feeds EXCEPT ![f] = [@ EXCEPT !.status = "processed", !.processed_at = <<now>>]]

\* with transaction.atomic(): both writes, or neither when the row is gone
Commit(r) ==
    /\ r.pc = "processing"
    /\ IF Exists(r.fid)
       THEN /\ annotations' = UpdateOrCreate(r.fid, r.emb)
            /\ nextAnn' = IF AnnotationsOf(r.fid) = {} THEN nextAnn + 1 ELSE nextAnn
            /\ feeds' = MarkProcessed(r.fid)
            /\ tasks' = Replace(r, [r EXCEPT !.pc = "done", !.emb = NoEmb])
            /\ UNCHANGED <<nextFeed, published, failedSel, now, ents, pure>>
       ELSE HandleException(r, r, ErrIntegrity)

\* a block that is not atomic: the annotation written before the statement
\* that raised stays (C29 must fail under it)
CommitRaise_notAtomic(r) ==
    /\ r.pc = "processing"
    /\ Exists(r.fid)
    /\ annotations' = UpdateOrCreate(r.fid, r.emb)
    /\ nextAnn' = IF AnnotationsOf(r.fid) = {} THEN nextAnn + 1 ELSE nextAnn
    /\ feeds' = MarkFailed(r.fid, ErrWrite)
    /\ tasks' = Replace(r, Retry(r))
    /\ UNCHANGED <<nextFeed, published, failedSel, now, ents, pure>>

\* a statement inside the atomic block raises although the row is there
\* (OperationalError): the block rolls back what it wrote, and the except
\* Exception branch handles the failure
CommitRaise(r) ==
    /\ r.pc = "processing"
    /\ Exists(r.fid)
    /\ HandleException(r, r, ErrWrite)

\* the worker dies inside an attempt: the message was acknowledged when it was
\* received, so it is gone and nothing runs it again
Crash(r) ==
    /\ InFlight(r)
    /\ tasks' = tasks (-) SetToBag({r})
    /\ UNCHANGED <<feeds, nextFeed, annotations, nextAnn, published, failedSel, now, ents, pure>>

\* ------------------------------------------------------------- the sweeps
\* the first n rows of a queryset ordered by -created_at
RECURSIVE Newest(_, _)
Newest(S, n) ==
    IF S = {} \/ n = 0 THEN {}
    ELSE LET f == CHOOSE x \in S : \A y \in S : x >= y
         IN {f} \cup Newest(S \ {f}, n - 1)

\* process_pending_feedbacks: RawFeed.objects.filter(status='new')[:100],
\* process_feedback.delay for each
\* a sweep that also takes the failed rows (C4 must fail under it)
PendingSel_withFailed ==
    Newest(WithStatus("new") \cup WithStatus("failed"), BatchLimit)

\* a sweep that filters on a status no row ever has (C13 must fail under it)
PendingSel_pending == Newest(WithStatus("pending"), BatchLimit)

\* a sweep without the status filter (C14 must fail under it)
PendingSel_all == Newest(DOMAIN feeds, BatchLimit)

PendingSel == Newest(WithStatus("new"), BatchLimit)

\* a sweep that marks the rows it publishes (C15 must fail under it)
PendingSweep_marking ==
    /\ PendingSel # {}
    /\ published + Cardinality(PendingSel) <= MaxTasks
    /\ tasks' = Publish(tasks, PendingSel)
    /\ published' = published + Cardinality(PendingSel)
    /\ feeds' = [f \in DOMAIN feeds |->
                    IF f \in PendingSel THEN [feeds[f] EXCEPT !.status = "processing"]
                    ELSE feeds[f]]
    /\ UNCHANGED <<nextFeed, annotations, nextAnn, failedSel, now, ents, pure>>

PendingSweep ==
    /\ PendingSel # {}
    /\ published + Cardinality(PendingSel) <= MaxTasks
    /\ tasks' = Publish(tasks, PendingSel)
    /\ published' = published + Cardinality(PendingSel)
    /\ UNCHANGED <<feeds, nextFeed, annotations, nextAnn, failedSel, now, ents, pure>>

\* reprocess_failed_feedbacks: the queryset filter(status='failed') is read
\* when the loop starts; each row is reset and published later, from that read
FailedSel == WithStatus("failed")

FailedSweepStart ==
    /\ failedSel = {}
    /\ FailedSel # {}
    /\ failedSel' = FailedSel
    /\ UNCHANGED <<feeds, nextFeed, annotations, nextAnn, tasks, published, now, ents, pure>>

\* a reset that clears the message and forgets the status (C7 must fail under it)
ResetFeed_messageOnly(f) ==
    [feeds EXCEPT ![f] = [@ EXCEPT !.error_message = NULL]]

\* a reset that also forgets when the item was processed (C27 must fail under it)
ResetFeed_clearsTimestamp(f) ==
    [feeds EXCEPT ![f] = [@ EXCEPT !.status = "new", !.error_message = NULL,
                                   !.processed_at = NoTime]]

ResetFeed(f) ==
    [feeds EXCEPT ![f] = [@ EXCEPT !.status = "new", !.error_message = NULL]]

FailedSweepStep ==
    /\ failedSel # {}
    /\ published < MaxTasks
    /\ LET f == CHOOSE x \in failedSel : \A y \in failedSel : x >= y
       IN  IF Exists(f)
           THEN /\ feeds' = ResetFeed(f)
                /\ tasks' = Publish(tasks, {f})
                /\ published' = published + 1
                /\ failedSel' = failedSel \ {f}
           ELSE \* save raises DatabaseError: the outer except ends the run
                /\ failedSel' = {}
                /\ UNCHANGED <<feeds, tasks, published>>
    /\ UNCHANGED <<nextFeed, annotations, nextAnn, now, ents, pure>>

\* RawFeedViewSet.reprocess: rejected while processing, else reset; no task
\* is published
Reprocess(f) ==
    /\ Exists(f)
    /\ feeds[f].status # "processing"
    /\ feeds' = ResetFeed(f)
    /\ UNCHANGED <<nextFeed, annotations, nextAnn, tasks, published, failedSel, now, ents, pure>>

\* a delete that leaves the annotation behind (C18 must fail under it)
Destroy_keepAnnotation(f) ==
    /\ Exists(f)
    /\ feeds' = [g \in DOMAIN feeds \ {f} |-> feeds[g]]
    /\ UNCHANGED <<nextFeed, annotations, nextAnn, tasks, published, failedSel, now,
                   ents, pure>>

\* DELETE /feedbacks/{id}/ of the ModelViewSet: the row goes, and its annotation
\* with it (on_delete=CASCADE)
Destroy(f) ==
    /\ Exists(f)
    /\ feeds' = [g \in DOMAIN feeds \ {f} |-> feeds[g]]
    /\ annotations' = {a \in annotations : a.raw_feed # f}
    /\ UNCHANGED <<nextFeed, nextAnn, tasks, published, failedSel, now, ents, pure>>

\* cleanup_old_feedbacks: filter(status='processed', processed_at__lt=cutoff)
\* .delete(), which cascades to ProcessedFeedback
Cutoff == now - RetentionSecs

\* a purge that also takes the rows at the cutoff (C17 must fail under it)
Old_inclusive ==
    {f \in WithStatus("processed") :
        feeds[f].processed_at # NoTime /\ feeds[f].processed_at[1] <= Cutoff}

\* a purge without the status filter (C19 must fail under it)
Old_anyStatus ==
    {f \in DOMAIN feeds :
        feeds[f].processed_at # NoTime /\ feeds[f].processed_at[1] < Cutoff}

Old == {f \in WithStatus("processed") :
            feeds[f].processed_at # NoTime /\ feeds[f].processed_at[1] < Cutoff}

Purge ==
    /\ Old # {}
    /\ feeds' = [f \in DOMAIN feeds \ Old |-> feeds[f]]
    /\ annotations' = {a \in annotations : a.raw_feed \notin Old}
    /\ UNCHANGED <<nextFeed, nextAnn, tasks, published, failedSel, now, ents, pure>>

\* time passes
Tick ==
    /\ now + TickSecs <= MaxNow
    /\ now' = now + TickSecs
    /\ UNCHANGED <<feeds, nextFeed, annotations, nextAnn, tasks, published, failedSel,
                   ents, pure>>

Next ==
    \/ \E u \in SpecUsers : CreateEntity(u)
    \/ \E e \in EntityIds, b \in BOOLEAN : UpdateEntity(e, b)
    \/ \E e \in EntityIds : DestroyEntity(e)
    \/ \E e \in EntityIds : Ingest(e)
    \/ \E e \in EntityIds : UploadStart(e)
    \/ \E e \in EntityIds : UploadRow(e)
    \/ \E e \in EntityIds : UploadEnd(e)
    \/ \E f \in Ids : Submit(f)
    \/ \E r \in Msgs : Load(r)
    \/ \E r \in Msgs : LoadRaise(r)
    \/ \E r \in Msgs : MarkProcessing(r)
    \/ \E r \in Msgs : AnnotateRaise(r)
    \/ \E r \in Msgs : Commit(r)
    \/ \E r \in Msgs : CommitRaise(r)
    \/ \E r \in Msgs : Crash(r)
    \/ PendingSweep
    \/ FailedSweepStart
    \/ FailedSweepStep
    \/ \E f \in Ids : Reprocess(f)
    \/ \E f \in Ids : Destroy(f)
    \/ Purge
    \/ Tick

Spec == Init /\ [][Next]_vars

\* ================================================================= claims
MsgsOf(f) == {r \in Msgs : r.fid = f}

\* number of messages of item f, copies counted, whose pc is in pcs
Count(f, pcs) ==
    BagCardinality([r \in {x \in MsgsOf(f) : x.pc \in pcs} |-> CopiesIn(r, tasks)])

\* C1: in every reachable state every RawFeed with status processed has
\* exactly one ProcessedFeedback referencing it and a non-null processed_at.
C1_ProcessedHasOneAnnotation ==
    \A f \in WithStatus("processed") :
        /\ Cardinality(AnnotationsOf(f)) = 1
        /\ feeds[f].processed_at # NoTime

\* a processed item with its annotation, written by one attempt while another
\* attempt on the same item is still running
C1_Witness ==
    \E f \in WithStatus("processed") :
        /\ Cardinality(AnnotationsOf(f)) = 1
        /\ feeds[f].processed_at # NoTime
        /\ Count(f, {"done"}) = 1
        /\ Count(f, {"loaded", "processing"}) = 1

\* C2: for every feedback id at most one attempt at a time is between its
\* load and its end.
C2_OneAttemptAtATime ==
    \A f \in Ids : Count(f, {"loaded", "processing"}) <= 1

\* C3 as stated: one Submit with an always-failing annotator is executed
\* exactly 3 times: a message is dead after 3 executions and none is published
\* again after its third.
C3_ThreeExecutions ==
    \A r \in Msgs :
        /\ r.pc = "dead" => r.execs = 3
        /\ r.execs >= 3 => r.pc # "queued"

\* C3 amended: a message whose executions all fail is executed exactly
\* max_retries + 1 = 4 times (the first execution and 3 retries): it is
\* published again after each of the first 3 failures, never after the 4th,
\* and when it dies the item, if it exists, is failed.
C3_FourExecutions ==
    [][ /\ \A r \in BagToSet(tasks') :
              /\ r.execs <= max_retries + 1
              /\ r.pc = "dead" => r.execs = max_retries + 1
              /\ r.pc = "queued" => r.execs = r.retries /\ r.execs <= max_retries
        /\ \A r \in BagToSet(tasks') :
              (r.pc = "dead" /\ CopiesIn(r, tasks') > CopiesIn(r, tasks) /\ Exists(r.fid))
                  => feeds'[r.fid].status = "failed"
        /\ \A r \in Msgs :
              r.pc = "dead" => CopiesIn(r, tasks') >= CopiesIn(r, tasks)
      ]_vars

\* a message that failed 4 times and is dead, its item failed
C3_Witness ==
    \E r \in Msgs :
        /\ r.pc = "dead" /\ r.execs = 4
        /\ Exists(r.fid) /\ feeds[r.fid].status = "failed"

\* ------------------------------------------------------------------- C4
\* the messages of item f, as a bag
BagOf(b, f) == [r \in {x \in BagToSet(b) : x.fid = f} |-> CopiesIn(r, b)]

Quiet(f) == \A r \in MsgsOf(f) : ~Live(r)

\* C4 as stated: once a message of the item is dead and the item is failed,
\* the status stays failed and no attempt runs for the item until it is reset
\* to new.
C4_FailedUntilReset ==
    [][ \A f \in DOMAIN feeds :
          (feeds[f].status = "failed" /\ \E r \in MsgsOf(f) : r.pc = "dead")
            => /\ f \in DOMAIN feeds'
               /\ \/ feeds'[f].status = "new"
                  \/ /\ feeds'[f].status = "failed"
                     /\ BagOf(tasks, f) \sqsubseteq BagOf(tasks', f)
      ]_vars

\* C4 amended: a dead message is never executed or published again; while the
\* item is failed and no other message of it is queued or running, its row
\* does not change and no attempt runs for it until a failed-retry sweep or a
\* reprocess request resets it to new with the error message cleared, the id
\* is submitted again by a caller, or the item is deleted; the pending sweep
\* publishes no message for an item whose status is not new.
C4_FailedUntilResetOrOtherMessage ==
    [][ /\ \A r \in Msgs :
              r.pc = "dead" => CopiesIn(r, tasks') >= CopiesIn(r, tasks)
        /\ \A f \in DOMAIN feeds :
              (feeds[f].status = "failed" /\ Quiet(f))
                => \/ f \notin DOMAIN feeds' /\ tasks' = tasks
                   \/ /\ f \in DOMAIN feeds'
                      /\ \/ feeds'[f] = ResetFeed(f)[f]
                         \/ /\ feeds'[f] = feeds[f]
                            /\ BagOf(tasks', f) \in
                                  {BagOf(tasks, f),
                                   BagOf(tasks, f) (+) SetToBag({NewTask(f)})}
        /\ PendingSweep =>
              \A f \in Ids :
                  CopiesIn(NewTask(f), tasks') > CopiesIn(NewTask(f), tasks)
                      => (Exists(f) /\ feeds[f].status = "new")
      ]_vars

\* an item failed by a message that exhausted its retries, nothing else
\* pending for it, while the other item is new and the sweep can run
C4_Witness ==
    \E f \in WithStatus("failed") :
        /\ \E r \in MsgsOf(f) : r.pc = "dead"
        /\ Quiet(f)
        /\ WithStatus("new") # {}
        /\ published < MaxTasks

\* ------------------------------------------------------------------- C5
AllowedEdges == {<<"new", "processing">>, <<"processing", "processed">>,
                 <<"new", "failed">>, <<"processing", "failed">>,
                 <<"failed", "new">>}

\* C5: every change of an item's status follows one of the edges
\* new->processing, processing->processed, new->failed, processing->failed,
\* failed->new.
C5_OnlyAllowedEdges ==
    [][ \A f \in DOMAIN feeds \cap DOMAIN feeds' :
          feeds'[f].status # feeds[f].status
            => <<feeds[f].status, feeds'[f].status>> \in AllowedEdges
      ]_vars

\* ------------------------------------------------------------------- C6
\* the step is an attempt of message r ending in the exception whose text is msg
Raised(r, msg) ==
    \/ msg = ErrLoad /\ LoadRaise(r)
    \/ msg = ErrAnnotate /\ AnnotateRaise(r)
    \/ msg = ErrSave /\ ~Exists(r.fid) /\ MarkProcessing(r)
    \/ msg = ErrIntegrity /\ ~Exists(r.fid) /\ Commit(r)
    \/ msg = ErrWrite /\ CommitRaise(r)

ErrMsgs == {ErrLoad, ErrAnnotate, ErrSave, ErrIntegrity, ErrWrite}

\* the step publishes the next retry of message r
RetryScheduled(r) ==
    \E q \in BagToSet(tasks') :
        /\ q.fid = r.fid /\ q.pc = "queued" /\ q.retries = r.retries + 1
        /\ CopiesIn(q, tasks') > CopiesIn(q, tasks)

FailurePersisted(r, msg) ==
    /\ r.fid \in DOMAIN feeds'
    /\ feeds'[r.fid].status = "failed"
    /\ feeds'[r.fid].error_message = msg

C7_FailedHasMessage ==
    \A f \in WithStatus("failed") : feeds[f].error_message # NULL

\* an item failed while a failed-retry sweep that did not select it is running
C7_Witness ==
    \E f \in WithStatus("failed") :
        /\ feeds[f].error_message # NULL
        /\ failedSel # {}
        /\ f \notin failedSel

\* ------------------------------------------------------------------- C8
\* C8: an attempt that commits on an item leaves exactly one annotation for
\* it, carrying the values of this attempt, with the id the item's annotation
\* had before when it had one, and leaves the item processed; no other
\* item's annotation changes.
C8_UpsertKeepsTheRecord ==
    [][ \A r \in Msgs :
          (Commit(r) /\ Exists(r.fid))
            => /\ feeds'[r.fid].status = "processed"
               /\ \E a \in annotations' :
                     /\ {b \in annotations' : b.raw_feed = r.fid} = {a}
                     /\ a.embeddings = r.emb
                     /\ \A old \in AnnotationsOf(r.fid) : a.id = old.id
               /\ {b \in annotations' : b.raw_feed # r.fid}
                     = {b \in annotations : b.raw_feed # r.fid}
      ]_vars

\* two attempts committed on the same item: one annotation, item processed
C8_Witness ==
    \E f \in WithStatus("processed") :
        /\ Count(f, {"done"}) = 2
        /\ Cardinality(AnnotationsOf(f)) = 1

\* ------------------------------------------------------------------- C9
\* C9: while an attempt has written processing and has not finished, the
\* stored status of its item is processing or failed, never new.
C9_InFlightIsVisible ==
    \A r \in Msgs :
        (r.pc = "processing" /\ Exists(r.fid))
            => feeds[r.fid].status \in {"processing", "failed"}

\* ------------------------------------------------------------------ C10
\* The workers take every message they are given and finish the attempts they
\* start unless they crash; celery beat runs the pending sweep and the purge
\* again and again. Nothing schedules reprocess_failed_feedbacks or the
\* requests of the API.
FairSpec ==
    /\ Spec
    /\ WF_vars(\E r \in Msgs : Load(r))
    /\ WF_vars(\E r \in Msgs : MarkProcessing(r))
    /\ WF_vars(\E r \in Msgs : Commit(r))
    /\ WF_vars(PendingSweep)
    /\ WF_vars(Purge)

\* the item is processing and no message of it is queued or running: the
\* attempt that wrote processing died
Orphaned(f) == Exists(f) /\ feeds[f].status = "processing" /\ Quiet(f)

\* C10: an item left in processing by a crashed attempt is eventually
\* resubmitted and eventually processed or failed. (A run in which MaxTasks
\* messages were published is let off, so that no sweep the bound has stopped
\* counts against the claim.)
C10_OrphanRecovered ==
    \A f \in Ids :
        Orphaned(f)
            ~> \/ published = MaxTasks
               \/ Exists(f) => feeds[f].status \in {"processed", "failed"}
\* ------------------------------------------------------------------- C11
\* C11: executing process_feedback on an id for which no RawFeed exists ends
\* with the not-found report: the step changes no RawFeed and no
\* ProcessedFeedback, publishes no message (no retry), and the message is
\* never executed again.
C11_NotFoundSchedulesNothing ==
    [][ /\ \A r \in Msgs :
              (~Exists(r.fid) /\ Load(r))
                => LET r2 == [r EXCEPT !.pc = "notfound", !.execs = @ + 1]
                   IN  /\ feeds' = feeds
                       /\ annotations' = annotations
                       /\ CopiesIn(r2, tasks') = CopiesIn(r2, tasks) + 1
                       /\ BagCardinality(tasks') = BagCardinality(tasks)
                       /\ \A q \in BagToSet(tasks') :
                             q.pc = "queued" => CopiesIn(q, tasks') <= CopiesIn(q, tasks)
        /\ \A r \in Msgs :
              r.pc = "notfound" => CopiesIn(r, tasks') >= CopiesIn(r, tasks)
      ]_vars

\* a message that found no row on its first execution, beside an item that
\* another message processed
C11_Witness ==
    /\ \E r \in Msgs : r.pc = "notfound" /\ r.execs = 1 /\ r.retries = 0
    /\ \E f \in WithStatus("processed") : AnnotationsOf(f) # {}

\* ------------------------------------------------------------------- C12
\* C12: the retry published after the k-th failed execution of a message
\* (k = 0, 1, 2, counted from the first) carries the delay 60 * 2^k, that is
\* 60, 120 and 240 seconds, and no retry is published with another delay: a
\* message published by its n-th retry has had n failed executions before and
\* carries the n-th of these delays, whatever became of it since.
C12_RetryDelays ==
    \A r \in Msgs :
        r.pc # "dead"
          => /\ r.retries \in 0..3
             /\ r.retries = 0 => r.countdown = 0
             /\ r.retries > 0 => r.countdown = <<60, 120, 240>>[r.retries]
             /\ r.pc = "queued" => r.execs = r.retries

\* the third retry of a message waits with a delay of 240 seconds
C12_Witness ==
    \E r \in Msgs : r.pc = "queued" /\ r.retries = 3 /\ r.execs = 3 /\ r.countdown = 240

\* ------------------------------------------------------------------- C13
\* The pipeline when nothing fails: the database answers, the analysis
\* succeeds and no worker dies; nobody publishes a message but the pending
\* sweep. Requests of the API arrive as they like.
NextLive ==
    \/ \E u \in SpecUsers : CreateEntity(u)
    \/ \E e \in EntityIds : DestroyEntity(e)
    \/ \E e \in EntityIds : Ingest(e)
    \/ \E e \in EntityIds : UploadStart(e)
    \/ \E e \in EntityIds : UploadRow(e)
    \/ \E e \in EntityIds : UploadEnd(e)
    \/ \E r \in Msgs : Load(r)
    \/ \E r \in Msgs : MarkProcessing(r)
    \/ \E r \in Msgs : Commit(r)
    \/ PendingSweep
    \/ \E f \in Ids : Reprocess(f)
    \/ \E f \in Ids : Destroy(f)

\* the workers take every message they are given and finish what they began;
\* beat runs process_pending_feedbacks every 60 seconds
LiveSpec ==
    /\ Init
    /\ [][NextLive]_vars
    /\ WF_vars(\E r \in Msgs : Load(r))
    /\ WF_vars(\E r \in Msgs : MarkProcessing(r))
    /\ WF_vars(\E r \in Msgs : Commit(r))
    /\ WF_vars(PendingSweep)

IsNew(f) == Exists(f) /\ feeds[f].status = "new"

IsProcessed(f) == Exists(f) /\ feeds[f].status = "processed"

\* a message of the item waits or runs
Submitted(f) == \E r \in MsgsOf(f) : Live(r)

\* the sweep would publish more messages than the model has
SweepStopped == published + Cardinality(PendingSel) > MaxTasks

\* C13 as stated: every item that is new is eventually submitted, also when
\* ingestion published nothing, and eventually reaches processed (as long as
\* the model has messages left for the sweep).
C13_NewIsProcessed ==
    \A f \in Ids :
        /\ IsNew(f) ~> (Submitted(f) \/ IsProcessed(f) \/ SweepStopped)
        /\ IsNew(f) ~> (IsProcessed(f) \/ SweepStopped)

\* C13 amended: every item that is new is eventually submitted and eventually
\* reaches processed, unless it is deleted first (as long as the model has
\* messages left for the sweep).
C13_NewIsProcessedUnlessDeleted ==
    \A f \in Ids :
        /\ IsNew(f) ~> (Submitted(f) \/ IsProcessed(f) \/ ~Exists(f) \/ SweepStopped)
        /\ IsNew(f) ~> (IsProcessed(f) \/ ~Exists(f) \/ SweepStopped)

\* an item that ingestion left without a message is processed by a message
\* of the sweep
C13_Witness ==
    \E f \in Ids :
        /\ IsProcessed(f)
        /\ Count(f, {"done"}) = 1
        /\ published = 1

\* ------------------------------------------------------------------- C14
\* the slice [:n] of a queryset ordered by -created_at has the n newest rows,
\* or all rows when there are fewer
SliceTakesNewest ==
    \A S \in SUBSET (1..4) : \A n \in 0..3 :
        /\ Newest(S, n) \subseteq S
        /\ Cardinality(Newest(S, n)) = IF Cardinality(S) < n THEN Cardinality(S) ELSE n
        /\ \A x \in Newest(S, n) : \A y \in S \ Newest(S, n) : x > y

C15_SweepWritesNoRow ==
    [][ PendingSweep
          => /\ feeds' = feeds
             /\ annotations' = annotations
             /\ nextFeed' = nextFeed
             /\ nextAnn' = nextAnn
      ]_vars

\* the sweep has published for an item that was processed before and reset:
\* the item is still new and still has its annotation and its processed_at
C15_Witness ==
    \E f \in Ids :
        /\ IsNew(f) /\ feeds[f].processed_at # NoTime
        /\ Cardinality(AnnotationsOf(f)) = 1
        /\ Count(f, {"done"}) = 1 /\ Count(f, {"queued"}) = 1

\* ------------------------------------------------------------------- C16
\* C16: every turn of the loop of one run of the failed-retry sweep takes one
\* of the items the run selected, which is failed, sets it to new with the
\* error message cleared and publishes exactly one message for it, and goes on
\* to the next until none is left (an item deleted since the selection is
\* passed over); it changes no other item, so none whose status is new,
\* processing or processed.
C16_SweepResetsFailedOnly ==
    [][ FailedSweepStep
          => \E f \in failedSel :
                /\ failedSel' = failedSel \ {f}
                /\ \A g \in DOMAIN feeds \ {f} : g \in DOMAIN feeds' /\ feeds'[g] = feeds[g]
                /\ IF Exists(f)
                   THEN /\ feeds[f].status = "failed"
                        /\ f \in DOMAIN feeds'
                        /\ feeds'[f].status = "new" /\ feeds'[f].error_message = NULL
                        /\ tasks' = tasks (+) SetToBag({NewTask(f)})
                   ELSE feeds' = feeds /\ tasks' = tasks
      ]_vars

\* ------------------------------------------------------------------- C17
\* The purge at the retention cutoff: the rows are in any status, processed
\* (if ever) one second before the cutoff, at the cutoff or one second after
\* it; a row that was processed once keeps its ProcessedFeedback.
PurgeRows ==
    {r \in [status : {"new", "processing", "processed", "failed"},
            error_message : {NULL, ErrAnnotate},
            processed_at : {NoTime, <<0>>, <<1>>, <<2>>},
            entity : {1}] :
        /\ r.status = "processed" => r.processed_at # NoTime
        /\ r.status = "failed" <=> r.error_message # NULL}

InitPurge ==
    /\ feeds \in [Ids -> PurgeRows]
    /\ nextFeed = MaxItems + 1
    /\ annotations = {[id |-> f, raw_feed |-> f, embeddings |-> "e1"] :
                        f \in {g \in Ids : feeds[g].processed_at # NoTime}}
    /\ nextAnn = MaxItems + 1
    /\ tasks = EmptyBag
    /\ published = 0
    /\ failedSel = {}
    /\ now = RetentionSecs + 1
    /\ entities = [e \in {1} |-> [is_active |-> TRUE, owner |-> "ann"]]
    /\ nextEntity = 2
    /\ uploading = {}
    /\ response = "none"
    /\ text = <<>>
    /\ runs = <<>>
    /\ results = <<>>

\* a second passes
Second ==
    /\ now < RetentionSecs + 1 + MaxTicks
    /\ now' = now + 1
    /\ UNCHANGED <<feeds, nextFeed, annotations, nextAnn, tasks, published, failedSel,
                   ents, pure>>

NextPurge ==
    \/ Purge
    \/ Second

SpecPurge == InitPurge /\ [][NextPurge]_vars

\* C17: a run of the purge deletes exactly the rows with status processed
\* whose processed_at is strictly earlier than now minus 90 days (7776000
\* seconds) and changes no other row: a processed row exactly at the cutoff
\* survives, one a second older is deleted, and no new, processing or failed
\* row is deleted.
C17_PurgeDeletesOldProcessedOnly ==
    [][ Purge
          => LET cutoff == now - 7776000
                 at(f) == feeds[f].processed_at
             IN  /\ DOMAIN feeds' \subseteq DOMAIN feeds
                 /\ \A f \in DOMAIN feeds' : feeds'[f] = feeds[f]
                 /\ \A f \in DOMAIN feeds :
                       f \notin DOMAIN feeds'
                         <=> /\ feeds[f].status = "processed"
                             /\ at(f) # NoTime
                             /\ at(f)[1] < cutoff
                 /\ \A f \in WithStatus("processed") :
                       /\ at(f) = <<cutoff>> => f \in DOMAIN feeds'
                       /\ at(f) = <<cutoff - 1>> => f \notin DOMAIN feeds'
                 /\ \A f \in DOMAIN feeds :
                       feeds[f].status # "processed" => f \in DOMAIN feeds'
      ]_vars

\* a purge has deleted a row and left the processed row that is exactly at
\* the cutoff
C17_Witness ==
    /\ DOMAIN feeds # Ids
    /\ \E f \in WithStatus("processed") : feeds[f].processed_at = <<Cutoff>>

\* ------------------------------------------------------------------- C18
\* C18: after every step every ProcessedFeedback references an existing
\* RawFeed; a ProcessedFeedback disappears in a step exactly when its RawFeed
\* is deleted in that step.
C18_AnnotationLivesWithItsItem ==
    [][ /\ \A a \in annotations' : a.raw_feed \in DOMAIN feeds'
        /\ \A a \in annotations :
              (\A b \in annotations' : b.id # a.id) <=> a.raw_feed \notin DOMAIN feeds'
      ]_vars

\* an annotation was created and went with its item, while another item and
\* its annotation stayed
C18_Witness ==
    /\ nextAnn = 3
    /\ Cardinality(annotations) = 1
    /\ Cardinality(DOMAIN feeds) = 1
    /\ \A a \in annotations : Exists(a.raw_feed)

\* ------------------------------------------------------------------- C19
\* C19 as stated: a RawFeed is deleted only by the purge, and by the purge
\* only while its status is processed; no request of the API and no other
\* task removes one.
C19_OnlyPurgeDeletes ==
    [][ \A f \in DOMAIN feeds :
          f \notin DOMAIN feeds' => Purge /\ feeds[f].status = "processed"
      ]_vars

\* C19 amended: a RawFeed is deleted only by the purge, and then only while
\* its status is processed, or by a DELETE request of the API on the item or
\* on its entity, in any status; no other request and no other task removes
\* one.
C19_PurgeOrDeleteRequest ==
    [][ \A f \in DOMAIN feeds :
          f \notin DOMAIN feeds'
            => \/ Purge /\ feeds[f].status = "processed"
               \/ Destroy(f)
               \/ DestroyEntity(feeds[f].entity)
      ]_vars

\* the first item was deleted by a request while the clock had not moved and
\* the entity is still there
C19_Witness ==
    /\ nextFeed = 3
    /\ DOMAIN feeds = {2}
    /\ now = 0
    /\ DOMAIN entities # {}

\* ------------------------------------------------------------------- C20
\* C20: no RawFeed is ever created against an inactive BusinessEntity: in
\* every step that creates a RawFeed, by a single create or by a bulk upload,
\* the entity of the new row exists and is active.
C20_CreatedAgainstActiveEntity ==
    [][ \A f \in DOMAIN feeds' \ DOMAIN feeds :
          /\ feeds'[f].entity \in DOMAIN entities
          /\ entities[feeds'[f].entity].is_active
      ]_vars

\* =================================================== the views, per user
\* request.user.is_admin, as the views read it
IsAdmin(u) == u = "root"

\* an owner check that is forgotten (C21 must fail under it)
MayUse_anyUser(u, e) == TRUE

\* not (not request.user.is_admin and entity.owner != request.user)
MayUse(u, e) == IsAdmin(u) \/ entities[e].owner = u

\* BusinessEntityViewSet.get_queryset: all for an admin, else filter(owner=user)
CanSeeEntity(u, e) == e \in DOMAIN entities /\ (IsAdmin(u) \/ entities[e].owner = u)

\* RawFeedViewSet.get_queryset: all for an admin, else filter(entity__owner=user)
CanSeeFeed(u, f) ==
    Exists(f) /\ (IsAdmin(u) \/ entities[feeds[f].entity].owner = u)

\* POST /feedbacks/ with entity=e and a valid text: the serializer resolves the
\* entity (400 if there is none), perform_create checks the owner, then saves
FeedCreate(u, e) ==
    /\ nextFeed <= MaxItems
    /\ IF e \notin DOMAIN entities
       THEN response' = "400" /\ UNCHANGED <<feeds, nextFeed>>
       ELSE IF ~MayUse(u, e)
       THEN response' = "403" /\ UNCHANGED <<feeds, nextFeed>>
       ELSE /\ feeds' = Insert(e)
            /\ nextFeed' = nextFeed + 1
            /\ response' = "201"
    /\ UNCHANGED <<annotations, nextAnn, tasks, published, failedSel, now,
                   entities, nextEntity, uploading, pure>>

\* POST /bulk-upload/ with entity_id=e and a valid file, up to the creation of
\* the FeedbackBatch: validation, then the owner check; the rows follow
BulkUploadPost(u, e) ==
    /\ e \notin uploading
    /\ IF ~ValidateEntityId(e)
       THEN response' = "400" /\ UNCHANGED uploading
       ELSE IF ~MayUse(u, e)
       THEN response' = "403" /\ UNCHANGED uploading
       ELSE uploading' = uploading \cup {e} /\ response' = "201"
    /\ UNCHANGED <<feeds, nextFeed, annotations, nextAnn, tasks, published, failedSel,
                   now, entities, nextEntity, pure>>

\* PUT or PATCH /feedbacks/{f}/ with entity=e: get_object on the user's
\* queryset (404), RawFeedSerializer.validate_entity (400), then save
FeedUpdate(u, f, e) ==
    /\ IF ~CanSeeFeed(u, f)
       THEN response' = "404" /\ UNCHANGED feeds
       ELSE IF e \notin DOMAIN entities \/ ~entities[e].is_active
       THEN response' = "400" /\ UNCHANGED feeds
       ELSE feeds' = [feeds EXCEPT ![f].entity = e] /\ response' = "200"
    /\ UNCHANGED <<nextFeed, annotations, nextAnn, tasks, published, failedSel, now,
                   entities, nextEntity, uploading, pure>>

\* DELETE /feedbacks/{f}/: get_object on the user's queryset, then delete
FeedDestroy(u, f) ==
    /\ IF ~CanSeeFeed(u, f)
       THEN response' = "404" /\ UNCHANGED <<feeds, annotations>>
       ELSE /\ feeds' = [g \in DOMAIN feeds \ {f} |-> feeds[g]]
            /\ annotations' = {a \in annotations : a.raw_feed # f}
            /\ response' = "204"
    /\ UNCHANGED <<nextFeed, nextAnn, tasks, published, failedSel, now,
                   entities, nextEntity, uploading, pure>>

\* PUT or PATCH /entities/{e}/ writing is_active (owner is read-only)
EntityUpdate(u, e, b) ==
    /\ IF ~CanSeeEntity(u, e)
       THEN response' = "404" /\ UNCHANGED entities
       ELSE entities' = [entities EXCEPT ![e].is_active = b] /\ response' = "200"
    /\ UNCHANGED <<feeds, nextFeed, annotations, nextAnn, tasks, published, failedSel,
                   now, nextEntity, uploading, pure>>

\* DELETE /entities/{e}/, with its cascade
EntityDestroy(u, e) ==
    /\ IF ~CanSeeEntity(u, e)
       THEN response' = "404" /\ UNCHANGED <<entities, feeds, annotations>>
       ELSE /\ entities' = [d \in DOMAIN entities \ {e} |-> entities[d]]
            /\ feeds' = [f \in DOMAIN feeds \ FeedsOf(e) |-> feeds[f]]
            /\ annotations' = {a \in annotations : a.raw_feed \notin FeedsOf(e)}
            /\ response' = "204"
    /\ UNCHANGED <<nextFeed, nextAnn, tasks, published, failedSel, now, nextEntity,
                   uploading, pure>>

\* two entities exist, each owned by any user and active or not
ApiEntityIds == {1, 2}

InitApi ==
    /\ feeds = <<>>
    /\ nextFeed = 1
    /\ annotations = {}
    /\ nextAnn = 1
    /\ tasks = EmptyBag
    /\ published = 0
    /\ failedSel = {}
    /\ now = 0
    /\ entities \in [ApiEntityIds -> [is_active : BOOLEAN, owner : Users]]
    /\ nextEntity = 3
    /\ uploading = {}
    /\ response = "none"
    /\ text = <<>>
    /\ runs = <<>>
    /\ results = <<>>

NextApi ==
    \/ \E u \in Users, e \in ApiEntityIds : FeedCreate(u, e)
    \/ \E u \in Users, e \in ApiEntityIds : BulkUploadPost(u, e)
    \/ \E e \in ApiEntityIds : UploadRow(e)
    \/ \E e \in ApiEntityIds : UploadEnd(e)
    \/ \E u \in Users, f \in Ids, e \in ApiEntityIds : FeedUpdate(u, f, e)
    \/ \E u \in Users, f \in Ids : FeedDestroy(u, f)
    \/ \E u \in Users, e \in ApiEntityIds, b \in BOOLEAN : EntityUpdate(u, e, b)
    \/ \E u \in Users, e \in ApiEntityIds : EntityDestroy(u, e)

SpecApi == InitApi /\ [][NextApi]_vars

MaxWords == 4          \* words of a text
MaxRuns == 2           \* executions on items with the same text

UpperCase == <<"A", "B", "C", "D", "E", "F", "G", "H", "I", "J", "K", "L", "M", "N", "O", "P", "Q", "R", "S", "T", "U", "V", "W", "X", "Y", "Z">>

LowerCase == <<"a", "b", "c", "d", "e", "f", "g", "h", "i", "j", "k", "l", "m", "n", "o", "p", "q", "r", "s", "t", "u", "v", "w", "x", "y", "z">>

\* str.lower(), for the letters of the texts here
LowerChar(c) ==
    IF \E i \in DOMAIN UpperCase : UpperCase[i] = c
    THEN LowerCase[CHOOSE i \in DOMAIN UpperCase : UpperCase[i] = c]
    ELSE c

Lower(t) == [i \in 1..Len(t) |-> LowerChar(t[i])]

\* word in text_lower
Occurs(w, t) ==
    \E i \in 1..(Len(t) - Len(w) + 1) : SubSeq(t, i, i + Len(w) - 1) = w

positive_words ==
    <<<<"g", "r", "e", "a", "t">>,
      <<"e", "x", "c", "e", "l", "l", "e", "n", "t">>,
      <<"a", "m", "a", "z", "i", "n", "g">>,
      <<"l", "o", "v", "e">>,
      <<"p", "e", "r", "f", "e", "c", "t">>,
      <<"g", "o", "o", "d">>,
      <<"b", "e", "s", "t">>>>

negative_words ==
    <<<<"b", "a", "d">>,
      <<"t", "e", "r", "r", "i", "b", "l", "e">>,
      <<"a", "w", "f", "u", "l">>,
      <<"h", "a", "t", "e">>,
      <<"w", "o", "r", "s", "t">>,
      <<"p", "o", "o", "r">>,
      <<"d", "i", "s", "a", "p", "p", "o", "i", "n", "t", "e", "d">>>>

\* sum(1 for word in words if word in text_lower)
RECURSIVE CountIn(_, _)
CountIn(ws, t) ==
    IF ws = <<>> THEN 0
    ELSE (IF Occurs(Head(ws), t) THEN 1 ELSE 0) + CountIn(Tail(ws), t)

\* a score without the cap (C22 must fail under it)
ScoreOf_uncapped(count) == 60 + count * 10

\* min(0.6 + (count * 0.1), 0.95)
ScoreOf(count) == IF 60 + count * 10 < 95 THEN 60 + count * 10 ELSE 95

\* a comparison that gives the ties to positive (C23 must fail under it)
Label_ties(p, n) ==
    IF p >= n THEN "positive" ELSE IF n > p THEN "negative" ELSE "neutral"

\* if positive_count > negative_count ... elif negative_count > positive_count
Label(p, n) ==
    IF p > n THEN "positive" ELSE IF n > p THEN "negative" ELSE "neutral"

Sentiment(t) ==
    LET p == CountIn(positive_words, Lower(t))
        n == CountIn(negative_words, Lower(t))
    IN  [sentiment |-> Label(p, n),
         sentiment_score |-> IF Label(p, n) = "positive" THEN ScoreOf(p)
                             ELSE IF Label(p, n) = "negative" THEN ScoreOf(n)
                             ELSE 50]

\* the topics, in the order of the four tests; ['general'] if none matched
Topics(t) ==
    LET tl == Lower(t)
        t1 == IF Occurs(<<"d", "e", "l", "i", "v", "e", "r", "y">>, tl) THEN <<"delivery">> ELSE <<>>
        t2 == IF Occurs(<<"q", "u", "a", "l", "i", "t", "y">>, tl) \/ Occurs(<<"p", "r", "o", "d", "u", "c", "t">>, tl)
              THEN <<"product_quality">> ELSE <<>>
        t3 == IF Occurs(<<"p", "r", "i", "c", "e">>, tl) \/ Occurs(<<"c", "o", "s", "t">>, tl)
              THEN <<"pricing">> ELSE <<>>
        t4 == IF Occurs(<<"s", "e", "r", "v", "i", "c", "e">>, tl) \/ Occurs(<<"s", "u", "p", "p", "o", "r", "t">>, tl)
              THEN <<"customer_service">> ELSE <<>>
        all == t1 \o t2 \o t3 \o t4
    IN  IF all = <<>> THEN <<"general">> ELSE all

\* raw_feed.text[:150] + '...' if len(raw_feed.text) > 150 else raw_feed.text
Summary(t) ==
    IF Len(t) > 150 THEN SubSeq(t, 1, 150) \o <<".", ".", ".">> ELSE t

\* topics[:3]
KeyPhrases(tp) == SubSeq(tp, 1, IF Len(tp) < 3 THEN Len(tp) ELSE 3)

\* an analysis whose topics depend on the random draw (C24 must fail under it)
Analyse_randomTopics(t, e) ==
    [sentiment |-> Sentiment(t).sentiment,
     sentiment_score |-> Sentiment(t).sentiment_score,
     topics |-> IF e = "e1" THEN Topics(t) ELSE <<"general">>,
     embeddings |-> e,
     summary |-> Summary(t),
     key_phrases |-> KeyPhrases(Topics(t))]

\* the defaults of update_or_create, but processing_time and model_version; e
\* is the value of [random.random() for _ in range(10)]
Analyse(t, e) ==
    [sentiment |-> Sentiment(t).sentiment,
     sentiment_score |-> Sentiment(t).sentiment_score,
     topics |-> Topics(t),
     embeddings |-> e,
     summary |-> Summary(t),
     key_phrases |-> KeyPhrases(Topics(t))]

\* the words the texts are made of
Vocabulary ==
    {<<"b", "e", "s", "t", "-", "l", "o", "v", "e", "d">>,
     <<"G", "r", "e", "a", "t">>,
     <<"g", "o", "o", "d", "n", "e", "s", "s">>,
     <<"p", "e", "r", "f", "e", "c", "t">>,
     <<"b", "a", "d">>,
     <<"W", "o", "r", "s", "t">>,
     <<"d", "e", "l", "i", "v", "e", "r", "y">>,
     <<"P", "r", "i", "c", "e">>}

RECURSIVE Join(_)
Join(ws) ==
    IF ws = <<>> THEN <<>>
    ELSE IF Len(ws) = 1 THEN ws[1]
    ELSE ws[1] \o <<" ">> \o Join(Tail(ws))

\* every text of up to MaxWords words, and one of 151 characters
Texts ==
    {Join(ws) : ws \in UNION {[1..k -> Vocabulary] : k \in 0..MaxWords}}
        \cup {[i \in 1..151 |-> "x"]}

InitAnnotate ==
    /\ feeds = <<>>
    /\ nextFeed = 1
    /\ annotations = {}
    /\ nextAnn = 1
    /\ tasks = EmptyBag
    /\ published = 0
    /\ failedSel = {}
    /\ now = 0
    /\ entities = <<>>
    /\ nextEntity = 1
    /\ uploading = {}
    /\ response = "none"
    /\ text \in Texts
    /\ runs = <<>>
    /\ results = <<>>

\* one more execution analyses the text
Annotate ==
    /\ Len(runs) < MaxRuns
    /\ \E e \in Embeds : runs' = Append(runs, Analyse(text, e))
    /\ UNCHANGED <<feeds, nextFeed, annotations, nextAnn, tasks, published, failedSel,
                   now, ents, text, results>>

NextAnnotate == Annotate

SpecAnnotate == InitAnnotate /\ [][NextAnnotate]_vars

\* ------------------------------------------------------------------- C22
\* C22: every annotation an execution writes has a score between 0.0 and 1.0
\* (0 and 100 hundredths) and a label among positive, neutral and negative,
\* whatever the text.
C22_ScoreAndLabelInRange ==
    \A i \in 1..Len(runs) :
        /\ runs[i].sentiment_score >= 0
        /\ runs[i].sentiment_score <= 100
        /\ runs[i].sentiment \in {"positive", "neutral", "negative"}

\* a text with five positive keywords was analysed: the cap applied
C22_Witness ==
    /\ Len(runs) = MaxRuns
    /\ CountIn(positive_words, Lower(text)) > 4
    /\ runs[1].sentiment = "positive"
    /\ runs[1].sentiment_score = 95

\* ------------------------------------------------------------------- C23
\* the keywords of a list that occur in the lower-cased text, as a set
Found(ws, t) == {w \in {ws[k] : k \in DOMAIN ws} : Occurs(w, Lower(t))}

\* C23: the label is positive exactly when more distinct positive keywords than
\* negative ones occur in the lower-cased text, negative exactly when more
\* negative ones occur, neutral otherwise; a positive or negative score lies in
\* [0.6, 0.95] and a neutral score is 0.5.
C23_LabelFollowsKeywordCounts ==
    \A i \in 1..Len(runs) :
        LET p == Cardinality(Found(positive_words, text))
            n == Cardinality(Found(negative_words, text))
        IN  /\ runs[i].sentiment = "positive" <=> p > n
            /\ runs[i].sentiment = "negative" <=> n > p
            /\ runs[i].sentiment = "neutral" <=> p = n
            /\ runs[i].sentiment # "neutral"
                 => runs[i].sentiment_score >= 60 /\ runs[i].sentiment_score <= 95
            /\ runs[i].sentiment = "neutral" => runs[i].sentiment_score = 50

\* a tie between one positive and one negative keyword, both with capitals in
\* the text, was analysed as neutral
C23_Witness ==
    /\ Len(runs) > 0
    /\ text # Lower(text)
    /\ Cardinality(Found(positive_words, text)) = 1
    /\ Cardinality(Found(negative_words, text)) = 1
    /\ runs[1].sentiment = "neutral"
    /\ runs[1].sentiment_score = 50

Computed(a) ==
    [sentiment |-> a.sentiment, sentiment_score |-> a.sentiment_score,
     topics |-> a.topics, summary |-> a.summary, key_phrases |-> a.key_phrases]

MaxBulk == 3           \* entries of the lists given to process_bulk_feedbacks
MaxCalls == 2          \* calls of process_bulk_feedbacks

\* feedback_ids: lists of ids, with repeated ids and ids of no row
BulkLists == UNION {[1..k -> 1..MaxBulk] : k \in 0..MaxBulk}

\* the loop that gives up at the first id it cannot queue (C25 must fail under it)
RECURSIVE BulkLoop_stopAtFailure(_, _, _)
BulkLoop_stopAtFailure(ids, ok, acc) ==
    IF ids = <<>> THEN acc
    ELSE IF Head(ok)
         THEN BulkLoop_stopAtFailure(Tail(ids), Tail(ok),
                       [q |-> acc.q (+) SetToBag({NewTask(Head(ids))}),
                        queued |-> acc.queued + 1,
                        failed |-> acc.failed,
                        task_ids |-> Append(acc.task_ids, Head(ids))])
         ELSE [acc EXCEPT !.failed = acc.failed + 1]

\* for feedback_id in feedback_ids: ok[i] tells whether process_feedback.delay
\* returns for the i-th entry or raises; a task record is kept as the id of its
\* item, the task id being a fresh uuid
RECURSIVE BulkLoop(_, _, _)
BulkLoop(ids, ok, acc) ==
    IF ids = <<>> THEN acc
    ELSE IF Head(ok)
         THEN BulkLoop(Tail(ids), Tail(ok),
                       [q |-> acc.q (+) SetToBag({NewTask(Head(ids))}),
                        queued |-> acc.queued + 1,
                        failed |-> acc.failed,
                        task_ids |-> Append(acc.task_ids, Head(ids))])
         ELSE BulkLoop(Tail(ids), Tail(ok), [acc EXCEPT !.failed = acc.failed + 1])

\* process_bulk_feedbacks(feedback_ids)
SubmitBulk(ids, ok) ==
    /\ Len(results) < MaxCalls
    /\ published + Len(ids) <= MaxBulk
    /\ LET end == BulkLoop(ids, ok, [q |-> tasks, queued |-> 0, failed |-> 0,
                                      task_ids |-> <<>>])
       IN  /\ tasks' = end.q
           /\ published' = published + end.queued
           /\ results' = Append(results, [total |-> Len(ids),
                                          queued |-> end.queued,
                                          failed |-> end.failed,
                                          task_ids |-> end.task_ids])
    /\ UNCHANGED <<feeds, nextFeed, annotations, nextAnn, failedSel, now, ents,
                   text, runs>>

NextBulk == \E ids \in BulkLists : \E ok \in [1..Len(ids) -> BOOLEAN] : SubmitBulk(ids, ok)

SpecBulk == Init /\ [][NextBulk]_vars

\* ------------------------------------------------------------------- C25
\* how many entries of a list are the id f
RECURSIVE Times(_, _)
Times(f, ids) ==
    IF ids = <<>> THEN 0
    ELSE (IF Head(ids) = f THEN 1 ELSE 0) + Times(f, Tail(ids))

\* the messages of item f in the queue, counted with their copies
Copies(q, f) ==
    LET ms == {r \in BagToSet(q) : r.fid = f}
        RECURSIVE Sum(_)
        Sum(S) == IF S = {} THEN 0
                  ELSE LET r == CHOOSE r \in S : TRUE
                       IN  CopiesIn(r, q) + Sum(S \ {r})
    IN  Sum(ms)

\* C25: a call of process_bulk_feedbacks on a list attempts one task for each
\* entry: it returns total = the length of the list and queued + failed = total,
\* with one task record for each queued entry, and every entry that could be
\* queued is in the queue, also after an entry that could not.
C25_BulkQueuesEveryEntry ==
    [][\A ids \in BulkLists : \A ok \in [1..Len(ids) -> BOOLEAN] :
         SubmitBulk(ids, ok) =>
            LET res == results'[Len(results')]
                good == {i \in 1..Len(ids) : ok[i]}
            IN  /\ Len(results') = Len(results) + 1
                /\ res.total = Len(ids)
                /\ res.queued + res.failed = res.total
                /\ res.queued = Cardinality(good)
                /\ Len(res.task_ids) = res.queued
                /\ \A f \in 1..MaxBulk :
                      /\ Times(f, res.task_ids)
                           = Cardinality({i \in good : ids[i] = f})
                      /\ Copies(tasks', f)
                           = Copies(tasks, f) + Cardinality({i \in good : ids[i] = f})
      ]_vars

\* a call on three entries, two of them the same id, whose first entry could
\* not be queued and whose other two were
C25_Witness ==
    /\ Len(results) = 1
    /\ results[1].total = 3
    /\ results[1].failed = 1
    /\ results[1].task_ids = <<2, 2>>
    /\ Copies(tasks, 2) = 2

\* ------------------------------------------------------------------- C26
\* C26: when an attempt on an item in processing fails while retries remain, the
\* item is still in processing after the failure is handled, while the retry
\* waits; a failing attempt leaves the item failed only when the retries are
\* exhausted.
C26_ProcessingWhileRetryWaits ==
    [][ \A r \in Msgs :
          (/\ Raised(r, ErrAnnotate)
           /\ Exists(r.fid)
           /\ feeds[r.fid].status = "processing")
            => /\ r.fid \in DOMAIN feeds'
               /\ r.retries < max_retries => feeds'[r.fid].status = "processing"
               /\ feeds'[r.fid].status = "failed" => r.retries >= max_retries
      ]_vars

\* ==================================================== the reprocess request
\* POST .../feedbacks/{id}/reprocess/ by user u: get_object answers 404 for an
\* item the user does not see; an item in processing is refused; any other is
\* reset with save(update_fields=['status', 'error_message']). No task is
\* published.
FeedReprocess(u, f) ==
    /\ IF ~CanSeeFeed(u, f)
       THEN response' = "404" /\ UNCHANGED feeds
       ELSE IF feeds[f].status = "processing"
       THEN response' = "400" /\ UNCHANGED feeds
       ELSE response' = "200" /\ feeds' = ResetFeed(f)
    /\ UNCHANGED <<nextFeed, annotations, nextAnn, tasks, published, failedSel, now,
                   entities, nextEntity, uploading, pure>>

\* rows that an execution has touched: in processing, processed or failed,
\* a processed or failed one possibly processed before
TouchedRows ==
    {r \in [status : {"processing", "processed", "failed"},
            error_message : {NULL, ErrAnnotate},
            processed_at : {NoTime, <<0>>},
            entity : {1}] :
        /\ r.status = "processed" => r.processed_at # NoTime
        /\ r.status = "failed" => r.error_message # NULL}

\* the items are there, none of them new, and no message is queued
InitReprocess ==
    /\ feeds \in [Ids -> TouchedRows]
    /\ nextFeed = MaxItems + 1
    /\ annotations = {[id |-> f, raw_feed |-> f, embeddings |-> "e1"] :
                        f \in {g \in Ids : feeds[g].processed_at # NoTime}}
    /\ nextAnn = MaxItems + 1
    /\ tasks = EmptyBag
    /\ published = 0
    /\ failedSel = {}
    /\ now = 1
    /\ entities = [e \in {1} |-> [is_active |-> TRUE, owner |-> "ann"]]
    /\ nextEntity = 2
    /\ uploading = {}
    /\ response = "none"
    /\ text = <<>>
    /\ runs = <<>>
    /\ results = <<>>

NextReprocess ==
    \/ \E u \in Users, f \in Ids : FeedReprocess(u, f)
    \/ \E u \in Users, f \in Ids : FeedDestroy(u, f)
    \/ PendingSweep
    \/ \E r \in Msgs : Load(r)
    \/ \E r \in Msgs : MarkProcessing(r)
    \/ \E r \in Msgs : Commit(r)

\* the workers take what is queued and beat runs the pending sweep every minute
SpecReprocess ==
    /\ InitReprocess
    /\ [][NextReprocess]_vars
    /\ WF_vars(\E r \in Msgs : Load(r))
    /\ WF_vars(\E r \in Msgs : MarkProcessing(r))
    /\ WF_vars(\E r \in Msgs : Commit(r))
    /\ WF_vars(PendingSweep)

\* ------------------------------------------------------------------- C27
\* what a reprocess request of a user who sees the item does in one step
ReprocessResets(u, f) ==
    IF feeds[f].status = "processing"
    THEN /\ response' = "400"
         /\ feeds' = feeds /\ annotations' = annotations /\ tasks' = tasks
    ELSE /\ response' = "200"
         /\ DOMAIN feeds' = DOMAIN feeds
         /\ \A g \in DOMAIN feeds : g # f => feeds'[g] = feeds[g]
         /\ feeds'[f].status = "new"
         /\ feeds'[f].error_message = NULL
         /\ feeds'[f].processed_at = feeds[f].processed_at
         /\ feeds'[f].entity = feeds[f].entity
         /\ annotations' = annotations
         /\ tasks' = tasks

\* an execution of the item is under way
Running(f) == \E r \in MsgsOf(f) : r.pc \in {"loaded", "processing"}

C28_SuccessKeepsErrorMessage ==
    [][ \A r \in Msgs :
          (Exists(r.fid) /\ (MarkProcessing(r) \/ Commit(r)))
            => /\ DOMAIN feeds' = DOMAIN feeds
               /\ \A g \in DOMAIN feeds : g # r.fid => feeds'[g] = feeds[g]
               /\ feeds'[r.fid].error_message = feeds[r.fid].error_message
               /\ feeds'[r.fid].entity = feeds[r.fid].entity
               /\ MarkProcessing(r) => /\ feeds'[r.fid].processed_at = feeds[r.fid].processed_at
                                       /\ annotations' = annotations
               /\ Commit(r) => /\ feeds'[r.fid].status = "processed"
                               /\ feeds'[r.fid].processed_at = <<now>>
               /\ {a \in annotations' : a.raw_feed # r.fid}
                    = {a \in annotations : a.raw_feed # r.fid}
               /\ entities' = entities
      ]_vars

\* the first retry of a message succeeded after its first execution had failed:
\* the item is processed and carries the message of the failure
C28_Witness ==
    \E r \in Msgs :
        /\ r.pc = "done"
        /\ r.retries = 1
        /\ Exists(r.fid)
        /\ feeds[r.fid].status = "processed"
        /\ feeds[r.fid].error_message = ErrAnnotate
        /\ BagCardinality(tasks) = 1

\* ------------------------------------------------------------------- C29
\* C29: an attempt that ends in failure creates, changes and deletes no
\* annotation, also when the failure occurs inside the final atomic write.
C29_FailureKeepsAnnotations ==
    [][ \A r \in Msgs : \A msg \in ErrMsgs :
          Raised(r, msg) => annotations' = annotations /\ nextAnn' = nextAnn
      ]_vars

\* an item processed before fails inside the atomic write of a later attempt:
\* it is failed with the message of that failure and has its annotation
C29_Witness ==
    \E f \in DOMAIN feeds :
        /\ feeds[f].status = "failed"
        /\ feeds[f].error_message = ErrWrite
        /\ feeds[f].processed_at # NoTime
        /\ \E a \in annotations : a.raw_feed = f

\* ------------------------------------------------------------------- C30
\* C30: no create, update, partial update or bulk upload request of a user who
\* is no administrator leaves an item, new or changed by the request, whose
\* entity is owned by another user.
C30_NoItemUnderForeignEntity ==
    [][ \A u \in Users :
          (/\ ~IsAdmin(u)
           /\ \/ \E e \in ApiEntityIds : FeedCreate(u, e) \/ BulkUploadPost(u, e)
              \/ \E f \in Ids, e \in ApiEntityIds : FeedUpdate(u, f, e))
            => \A g \in DOMAIN feeds' :
                  (g \notin DOMAIN feeds \/ feeds'[g] # feeds[g])
                    => entities[feeds'[g].entity].owner = u
      ]_vars

====
